---- MODULE Spec2Model ----
(***************************************************************************)
(* Model of the entropy-coding toolkit: the static-model rANS coder        *)
(* (Code/src/rans.cpp), the static-model binary range coder and the        *)
(* binarizer (Code/src/cabac.cpp), and the bit-level writer and reader     *)
(* (Code/src/bitstream.cpp).                                               *)
(*                                                                         *)
(* Every uint32_t of the code is a pair <<hi, lo>> of 16-bit halves, so    *)
(* that all arithmetic is exact modulo 2^32; every uint16_t and uint8_t is *)
(* a natural number reduced modulo 2^16 or 2^8 where the code casts.       *)
(***************************************************************************)
EXTENDS Integers, Sequences, FiniteSets, TLC

VARIABLES
    \* ---- rANS coder (rans.cpp) ----
    rjob,      \* "roundtrip": ransDecode(ransEncode(symbols)); "crafted": ransDecode(stream)
    symbols,   \* ransEncode's argument
    rpc,       \* position in ransEncode / ransDecode
    freq,      \* std::array<uint16_t,4> freq
    cum,       \* std::array<uint16_t,4> cum
    x,         \* the rANS state, uint32_t
    ri,        \* the loop index i of the symbol loops
    stream,    \* ransEncode's out, then ransDecode's argument
    idx,       \* ransDecode's idx (read cursor, moving down from the tail)
    dout,      \* ransDecode's out
    rerr,      \* what() of the exception thrown, or NoError
    hX0,       \* history: the state x a single encoder transform started from
    \* ---- binary range coder (cabac.cpp) ----
    ajob,      \* "roundtrip": arithDecodeBits(arithEncodeBits(bits)); "crafted"
    bits,      \* arithEncodeBits's argument
    apc,       \* position in arithEncodeBits / arithDecodeBits
    numBits,   \* uint32_t numBits
    count0,    \* uint32_t count0
    count1,    \* uint32_t count1
    low,       \* uint32_t low
    range,     \* uint32_t range
    code,      \* uint32_t code (decoder only)
    astream,   \* arithEncodeBits's out, then arithDecodeBits's argument
    aoff,      \* arithDecodeBits's offset
    abits,     \* arithDecodeBits's bits
    ai,        \* number of bits processed so far by the current bit loop
    aerr,      \* what() of the exception thrown, or NoError
    hShifts,   \* history: iterations of the encoder's renormalize loop so far
    hLow,      \* history: the encoder's low register when its bit loop ended
    hCarry,    \* history: some low += split of the encoder wrapped past 2^32
    \* ---- binarizer (cabac.cpp), BitWriter and BitReader (bitstream.cpp) ----
    bjob,      \* "symbol", "sequence", "pack", "writer" or "reader"
    bpc,       \* position in the job
    bsyms,     \* the symbols given to binarizeSymbol (one) or binarizeSequence
    bres,      \* per codebook: what the binarizer call returned or threw
    pbits,     \* packBitsToBytes's argument
    pidx,      \* number of bits packBitsToBytes's loop has written
    wBuffer,       \* BitWriter::buffer_
    wCurrentByte,  \* BitWriter::currentByte_
    wBitPos,       \* BitWriter::bitPos_
    wRet,      \* what the last flush() returned
    hBits,     \* history: every bit given to writeBit so far
    hFlushes,  \* history: number of flush() calls so far
    hPrevRet,  \* history: what the flush() before the last one returned
    hOps,      \* history: the writeBit / writeBits calls made so far, in order
    rOut,      \* what the readBit / readBits calls reading those back returned
    rData,         \* BitReader::data_
    rByteIndex,    \* BitReader::byteIndex_
    rBitPos,       \* BitReader::bitPos_
    rRes,      \* reader job: what the last readBit() returned: <<bit>>, or <<>> if it threw
    berr,      \* what() of the exception the last readBit() threw, or NoError
    hCalls,    \* history, reader job: number of readBit() calls that returned
    hFails     \* history, reader job: number of readBit() calls that threw

rvars == <<rjob, symbols, rpc, freq, cum, x, ri, stream, idx, dout, rerr, hX0>>
avars == <<ajob, bits, apc, numBits, count0, count1, low, range, code,
           astream, aoff, abits, ai, aerr, hShifts, hLow, hCarry>>
bvars == <<bjob, bpc, bsyms, bres, pbits, pidx, wBuffer, wCurrentByte, wBitPos,
           wRet, hBits, hFlushes, hPrevRet, rData, rByteIndex, rBitPos, rRes,
           berr, hCalls, hFails, hOps, rOut>>
vars == <<rvars, avars, bvars>>

-----------------------------------------------------------------------------
(* Bounds of the model.                                                    *)

\* longest symbol sequence given to ransEncode
MaxSyms == 5
\* longest exhaustively enumerated bit sequence given to arithEncodeBits
MaxBits == 9
\* largest symbol count N in the header of a hand-made rANS stream
MaxCraftN == 2
\* largest bit count numBits in the header of a hand-made range-coder stream
MaxCraftBits == 2

-----------------------------------------------------------------------------
(* 32-bit unsigned arithmetic on pairs <<hi, lo>>, value hi * 2^16 + lo.   *)

W8 == 2 ^ 8
W16 == 2 ^ 16

Hi(a) == a[1]
Lo(a) == a[2]
U32Zero == <<0, 0>>
U32Max == <<W16 - 1, W16 - 1>>

\* from a natural number below 2^31
U32FromNat(n) == <<n \div W16, n % W16>>
\* back to a natural number, for values below 2^31 only
U32ToNat(a) == Hi(a) * W16 + Lo(a)

U32Lt(a, b) == Hi(a) < Hi(b) \/ (Hi(a) = Hi(b) /\ Lo(a) < Lo(b))
U32Le(a, b) == ~U32Lt(b, a)

\* a + b modulo 2^32
U32Add(a, b) ==
    LET s == Lo(a) + Lo(b)
    IN  <<(Hi(a) + Hi(b) + (s \div W16)) % W16, s % W16>>

\* a - b modulo 2^32
U32Sub(a, b) ==
    LET d == Lo(a) - Lo(b)
        borrow == IF d < 0 THEN 1 ELSE 0
    IN  <<(Hi(a) - Hi(b) - borrow) % W16, d % W16>>

\* the 32-bit product of two 16-bit halves, as <<high 16 bits, low 16 bits>>
Mul16(a, b) ==
    LET p0 == a * (b % W8)
        p1 == a * (b \div W8)
        t  == p0 + (p1 % W8) * W8
    IN  <<(t \div W16) + (p1 \div W8), t % W16>>

\* a * b modulo 2^32
U32Mul(a, b) ==
    LET ll == Mul16(Lo(a), Lo(b))
        hl == Mul16(Hi(a), Lo(b))
        lh == Mul16(Lo(a), Hi(b))
    IN  <<(ll[1] + hl[2] + lh[2]) % W16, ll[2]>>

\* a << 8 modulo 2^32, and a >> 8
U32Shl8(a) == <<(Hi(a) % W8) * W8 + (Lo(a) \div W8), (Lo(a) % W8) * W8>>
U32Shr8(a) == <<Hi(a) \div W8, (Hi(a) % W8) * W8 + (Lo(a) \div W8)>>
\* static_cast<uint8_t>(a >> 24) and static_cast<uint8_t>(a & 0xFF)
U32TopByte(a) == Hi(a) \div W8
U32LowByte(a) == Lo(a) % W8
\* (a << 8) | b for a byte b
U32ShiftIn(a, b) == LET s == U32Shl8(a) IN <<s[1], s[2] + b>>

\* a / d and a % d for a divisor 0 < d < 2^15 (schoolbook, one half at a time)
U32DivSmall(a, d) ==
    LET t == (Hi(a) % d) * W16 + Lo(a)
    IN  <<Hi(a) \div d, t \div d>>
U32ModSmall(a, d) == ((Hi(a) % d) * W16 + Lo(a)) % d

\* bit k (0 = least significant) of a
U32Bit(a, k) ==
    IF k < 16 THEN (Lo(a) \div (2 ^ k)) % 2 ELSE (Hi(a) \div (2 ^ (k - 16))) % 2

\* 2^k as a pair, k in 0..31
U32Pow2(k) == IF k < 16 THEN <<0, 2 ^ k>> ELSE <<2 ^ (k - 16), 0>>

\* restoring long division, bit 31 down to bit 0: <<quotient, remainder>>
RECURSIVE U32DivLoop(_, _, _, _, _)
U32DivLoop(a, d, k, q, r) ==
    IF k < 0 THEN <<q, r>>
    ELSE LET carry == Hi(r) >= 32768
             r2 == U32Add(U32Add(r, r), <<0, U32Bit(a, k)>>)
         IN  IF carry \/ U32Le(d, r2)
             THEN U32DivLoop(a, d, k - 1, U32Add(q, U32Pow2(k)), U32Sub(r2, d))
             ELSE U32DivLoop(a, d, k - 1, q, r2)

\* a / d on uint32_t, d # 0
U32Div(a, d) ==
    IF Hi(d) = 0 /\ Lo(d) < 32768
    THEN U32DivSmall(a, Lo(d))
    ELSE U32DivLoop(a, d, 31, U32Zero, U32Zero)[1]

-----------------------------------------------------------------------------
(* Byte-level helpers shared by both coders.                               *)

\* writeU32LE: the four bytes pushed, least significant first
writeU32LE(v) ==
    << Lo(v) % W8, (Lo(v) \div W8) % W8, Hi(v) % W8, (Hi(v) \div W8) % W8 >>

\* writeU16LE: the two bytes pushed, least significant first
writeU16LE(v) == << v % W8, (v \div W8) % W8 >>

\* readU32LE's value at 0-based offset off (the caller has checked the length)
readU32LEAt(in, off) ==
    << in[off + 3] + in[off + 4] * W8, in[off + 1] + in[off + 2] * W8 >>

\* readU16LE's value at 0-based offset off
readU16LEAt(in, off) == in[off + 1] + in[off + 2] * W8

NoError == "none"

-----------------------------------------------------------------------------
(* rANS coder, Code/src/rans.cpp.                                          *)

RANS_L == 8388608
TOTFREQ == 4096
ALPH_SIZE == 4

Alphabet == 0 .. (ALPH_SIZE - 1)
RansL32 == U32FromNat(RANS_L)
\* dataStart: the offset after the 4 + 4 * 2 header bytes
DataStart == 4 + 2 * ALPH_SIZE

ErrSymbolRange == "ransEncode: symbol out of range (0..3)"
ErrTooShort == "ransDecode: stream too short"
ErrZeroFreq == "ransDecode: zero freq in header"
ErrTotalFreq == "ransDecode: totalFreq != TOTFREQ"

\* 1) the histogram loop: counts[s]++ for every symbol
RECURSIVE Histogram(_, _, _)
Histogram(syms, n, counts) ==
    IF n > Len(syms) THEN counts
    ELSE Histogram(syms, n + 1, [counts EXCEPT ![syms[n]] = @ + 1])

\* 2) the scaling loop: count * TOTFREQ / sumCounts, forced to 1 when it is 0
ScaleFreq(counts, sumCounts) ==
    [k \in Alphabet |->
        IF counts[k] = 0 THEN 1
        ELSE LET scaled == (counts[k] * TOTFREQ) \div sumCounts
             IN  IF scaled = 0 THEN 1 ELSE scaled]

SumFreq(f) == f[0] + f[1] + f[2] + f[3]

\* the scan for maxIdx: the first index holding the largest value
RECURSIVE MaxIdx(_, _, _)
MaxIdx(f, k, m) ==
    IF k >= ALPH_SIZE THEN m
    ELSE MaxIdx(f, k + 1, IF f[k] > f[m] THEN k ELSE m)

\* mutant of DecrementLargest: the loop body runs once, as if diff were a flag
DecrementLargestOnce(f, diff) ==
    IF diff = 0 THEN f
    ELSE LET m == MaxIdx(f, 1, 0)
         IN  IF f[m] > 1 THEN [f EXCEPT ![m] = @ - 1] ELSE f

\* while (diff > 0): decrement the largest frequency, stop when it is 1
RECURSIVE DecrementLargest(_, _)
DecrementLargest(f, diff) ==
    IF diff = 0 THEN f
    ELSE LET m == MaxIdx(f, 1, 0)
         IN  IF f[m] > 1
             THEN DecrementLargest([f EXCEPT ![m] = @ - 1], diff - 1)
             ELSE f

\* the correction of the sum towards TOTFREQ
AdjustFreq(freqRaw) ==
    LET sumFreq == SumFreq(freqRaw)
    IN  IF sumFreq < TOTFREQ THEN [freqRaw EXCEPT ![0] = @ + (TOTFREQ - sumFreq)]
        ELSE IF sumFreq > TOTFREQ THEN DecrementLargest(freqRaw, sumFreq - TOTFREQ)
        ELSE freqRaw

\* the final loop: a 0 becomes 1, then the cast to uint16_t
CastFreq(freqRaw) ==
    [k \in Alphabet |-> (IF freqRaw[k] = 0 THEN 1 ELSE freqRaw[k]) % W16]

\* steps 1 and 2 of ransEncode: the header frequencies of a nonempty input
NormalizeFreq(syms) ==
    LET counts == Histogram(syms, 1, [k \in Alphabet |-> 0])
    IN  CastFreq(AdjustFreq(ScaleFreq(counts, SumFreq(counts))))

\* 3) the cumulative table, every entry cast to uint16_t
CumTable(f) ==
    LET c1 == (0 + f[0]) % W16
        c2 == (c1 + f[1]) % W16
        c3 == (c2 + f[2]) % W16
    IN  [k \in Alphabet |-> CASE k = 0 -> 0 [] k = 1 -> c1 [] k = 2 -> c2 [] OTHER -> c3]

\* 4) the header: N, then freq[0..3]
RansHeader(n, f) ==
    writeU32LE(U32FromNat(n)) \o writeU16LE(f[0]) \o writeU16LE(f[1])
        \o writeU16LE(f[2]) \o writeU16LE(f[3])

\* the encoder's renormalization loop: <<x, out>> when it ends
RECURSIVE RansEncRenorm(_, _, _)
RansEncRenorm(xx, f, out) ==
    IF U32Le(U32FromNat((RANS_L \div W8) * f), xx)
    THEN RansEncRenorm(U32Shr8(xx), f, Append(out, U32LowByte(xx)))
    ELSE <<xx, out>>

\* x = q * TOTFREQ + r + c with q = x / f, r = x % f
RansEncTransform(xx, f, c) ==
    LET f32 == U32FromNat(f)
        q == U32Div(xx, f32)
        r == U32Sub(xx, U32Mul(q, f32))
    IN  U32Add(U32Add(U32Mul(q, U32FromNat(TOTFREQ)), r), U32FromNat(c))

\* the flush loop: the four bytes of x, least significant first
RECURSIVE RansFlush(_, _, _)
RansFlush(xx, out, n) ==
    IF n = 0 THEN out
    ELSE RansFlush(U32Shr8(xx), Append(out, U32LowByte(xx)), n - 1)

\* the final state x from the last four bytes: stream[--idx] << (8 * i)
RansReadState(in) ==
    LET n == Len(in)
    IN  << in[n - 2] + in[n - 3] * W8, in[n] + in[n - 1] * W8 >>

\* the linear scan for the symbol whose interval holds x_mod (0 when none does)
RECURSIVE FindSymbol(_, _, _, _)
FindSymbol(xmod, f, c, k) ==
    IF k >= ALPH_SIZE THEN 0
    ELSE IF xmod >= c[k] /\ xmod < c[k] + f[k] THEN k
    ELSE FindSymbol(xmod, f, c, k + 1)

\* the decoder's renormalization loop: <<x, idx>> when it ends
RECURSIVE RansDecRenorm(_, _, _)
RansDecRenorm(xx, in, i) ==
    IF U32Lt(xx, RansL32) /\ i > DataStart
    THEN RansDecRenorm(U32ShiftIn(xx, in[i]), in, i - 1)
    ELSE <<xx, i>>

\* mutant of RansDecTransform: cum[s] is not subtracted from x_mod
RansDecTransformKeepCum(xx, f, c) ==
    U32Add(U32Mul(U32FromNat(f), U32DivSmall(xx, TOTFREQ)),
           U32FromNat(U32ModSmall(xx, TOTFREQ)))

\* x = f * x_div + x_rem with x_rem = x_mod - c
RansDecTransform(xx, f, c) ==
    LET xmod == U32ModSmall(xx, TOTFREQ)
        xdiv == U32DivSmall(xx, TOTFREQ)
        xrem == U32Sub(U32FromNat(xmod), U32FromNat(c))
    IN  U32Add(U32Mul(U32FromNat(f), xdiv), xrem)

\* mutant of HasZeroFreq: only freq[0] is checked
HasZeroFreqFirstOnly(f) == f[0] = 0

\* the header loop's check: some freq[k] == 0
HasZeroFreq(f) == \E k \in Alphabet : f[k] = 0

\* totalFreq = cum[ALPH_SIZE - 1] + freq[ALPH_SIZE - 1], a uint32_t sum
TotalFreq(f, c) == c[ALPH_SIZE - 1] + f[ALPH_SIZE - 1]

ZeroTable == [k \in Alphabet |-> 0]

RansEncodeBegin ==
    /\ rpc = "enc_start"
    /\ IF Len(symbols) = 0
       THEN /\ rpc' = "enc_done"
            /\ stream' = <<>>
            /\ UNCHANGED <<freq, cum, x, ri, rerr>>
       ELSE IF \E n \in 1 .. Len(symbols) : symbols[n] \notin Alphabet
       THEN /\ rpc' = "enc_fail"
            /\ rerr' = ErrSymbolRange
            /\ UNCHANGED <<freq, cum, x, ri, stream>>
       ELSE LET f == NormalizeFreq(symbols)
            IN  /\ freq' = f
                /\ cum' = CumTable(f)
                /\ stream' = RansHeader(Len(symbols), f)
                /\ x' = RansL32
                /\ ri' = Len(symbols) - 1
                /\ rpc' = "enc_loop"
                /\ rerr' = rerr
    /\ UNCHANGED <<rjob, hX0, symbols, idx, dout>>
    /\ UNCHANGED <<avars, bvars>>

RansEncodeStep ==
    /\ rpc = "enc_loop"
    /\ ri >= 0
    /\ LET s == symbols[ri + 1]
           rn == RansEncRenorm(x, freq[s], stream)
       IN  /\ stream' = rn[2]
           /\ x' = RansEncTransform(rn[1], freq[s], cum[s])
    /\ ri' = ri - 1
    /\ UNCHANGED <<rjob, hX0, symbols, rpc, freq, cum, idx, dout, rerr>>
    /\ UNCHANGED <<avars, bvars>>

RansEncodeFlush ==
    /\ rpc = "enc_loop"
    /\ ri < 0
    /\ stream' = RansFlush(x, stream, 4)
    /\ rpc' = "enc_done"
    /\ UNCHANGED <<rjob, hX0, symbols, freq, cum, x, ri, idx, dout, rerr>>
    /\ UNCHANGED <<avars, bvars>>

RansDecodeBegin ==
    /\ rpc \in {"enc_done", "dec_start"}
    /\ IF Len(stream) < 12
       THEN /\ rpc' = "dec_fail"
            /\ rerr' = ErrTooShort
            /\ UNCHANGED <<freq, cum, x, ri, idx, dout>>
       ELSE LET n == readU32LEAt(stream, 0)
                f == [k \in Alphabet |-> readU16LEAt(stream, 4 + 2 * k)]
                c == CumTable(f)
            IN  IF HasZeroFreq(f)
                THEN /\ rpc' = "dec_fail"
                     /\ rerr' = ErrZeroFreq
                     /\ UNCHANGED <<freq, cum, x, ri, idx, dout>>
                ELSE IF TotalFreq(f, c) # TOTFREQ
                THEN /\ rpc' = "dec_fail"
                     /\ rerr' = ErrTotalFreq
                     /\ freq' = f
                     /\ cum' = c
                     /\ UNCHANGED <<x, ri, idx, dout>>
                ELSE /\ freq' = f
                     /\ cum' = c
                     /\ x' = RansReadState(stream)
                     /\ idx' = Len(stream) - 4
                     /\ dout' = [k \in 1 .. U32ToNat(n) |-> 0]
                     /\ ri' = U32ToNat(n) - 1
                     /\ rpc' = "dec_loop"
                     /\ rerr' = rerr
    /\ UNCHANGED <<rjob, hX0, symbols, stream>>
    /\ UNCHANGED <<avars, bvars>>

RansDecodeStep ==
    /\ rpc = "dec_loop"
    /\ ri >= 0
    /\ LET s == FindSymbol(U32ModSmall(x, TOTFREQ), freq, cum, 0)
           rn == RansDecRenorm(RansDecTransform(x, freq[s], cum[s]), stream, idx)
       IN  /\ dout' = [dout EXCEPT ![ri + 1] = s]
           /\ x' = rn[1]
           /\ idx' = rn[2]
    /\ ri' = ri - 1
    /\ UNCHANGED <<rjob, hX0, symbols, rpc, freq, cum, stream, rerr>>
    /\ UNCHANGED <<avars, bvars>>

RansDecodeReturn ==
    /\ rpc = "dec_loop"
    /\ ri < 0
    /\ rpc' = "dec_done"
    /\ UNCHANGED <<rjob, hX0, symbols, freq, cum, x, ri, stream, idx, dout, rerr>>
    /\ UNCHANGED <<avars, bvars>>

\* one encoder transform on its own (the three lines after the encoder's
\* renormalization loop), applied to the symbol symbols[1] and the state x
RansStepEncode ==
    /\ rpc = "step_start"
    /\ LET s == symbols[1]
       IN  x' = RansEncTransform(x, freq[s], cum[s])
    /\ hX0' = x
    /\ rpc' = "step_enc"
    /\ UNCHANGED <<rjob, symbols, freq, cum, ri, stream, idx, dout, rerr>>
    /\ UNCHANGED <<avars, bvars>>

\* one decoder step on its own (the symbol search and the state update that
\* come before the decoder's renormalization loop)
RansStepDecode ==
    /\ rpc = "step_enc"
    /\ LET s == FindSymbol(U32ModSmall(x, TOTFREQ), freq, cum, 0)
       IN  /\ dout' = <<s>>
           /\ x' = RansDecTransform(x, freq[s], cum[s])
    /\ rpc' = "step_dec"
    /\ UNCHANGED <<rjob, hX0, symbols, freq, cum, ri, stream, idx, rerr>>
    /\ UNCHANGED <<avars, bvars>>

-----------------------------------------------------------------------------
(* The inputs of the rANS model.                                           *)

\* every sequence over S of length 0 .. n
SeqsUpTo(S, n) == UNION {[1 .. k -> S] : k \in 0 .. n}

\* header frequencies of hand-made streams: zero, small, the values an encoder
\* writes, and the largest uint16_t
CraftFreqs == {0, 1, 2, 1024, 4093, 4094, 65535}

\* what follows the header of a hand-made stream
CraftTails ==
    { <<>>, <<9>>, <<0, 0, 128>>, <<0, 128, 0, 0>>, <<1, 2, 3, 4>>,
      <<7, 9, 0, 0, 1, 0>> }

\* streams of at least 12 bytes: any header, then a tail
CraftedRansLong ==
    { RansHeader(n, f) \o t : n \in 0 .. MaxCraftN, f \in [Alphabet -> CraftFreqs],
                              t \in CraftTails }

\* streams shorter than the header
CraftedRansShort == { [k \in 1 .. n |-> b] : n \in 0 .. 11, b \in {0, 1, 255} }

\* frequency tables for a single step: every entry >= 1, sum 4096
StepTables ==
    { <<1024, 1024, 1024, 1024>>, <<4093, 1, 1, 1>>, <<1, 4093, 1, 1>>,
      <<1, 1, 1, 4093>>, <<2048, 1, 2046, 1>>, <<1365, 1365, 1365, 1>>,
      <<100, 200, 300, 3496>> }

\* states for a single step with frequency f: below the encoder's
\* renormalization bound (RANS_L >> 8) * f
StepStates(f) ==
    { n \in { 0, 1, f - 1, f, f + 1, TOTFREQ - 1, TOTFREQ, 128 * f - 1, 128 * f,
              RANS_L - 1, RANS_L, RANS_L + 12345, (RANS_L \div W8) * f - 1 } :
        n < (RANS_L \div W8) * f }

RansIdle ==
    /\ rjob = "idle" /\ symbols = <<>> /\ rpc = "idle" /\ freq = ZeroTable
    /\ cum = ZeroTable /\ x = U32Zero /\ ri = 0 /\ stream = <<>> /\ idx = 0
    /\ dout = <<>> /\ rerr = NoError /\ hX0 = U32Zero

ArithIdle ==
    /\ ajob = "idle" /\ bits = <<>> /\ apc = "idle" /\ numBits = U32Zero
    /\ count0 = U32Zero /\ count1 = U32Zero /\ low = U32Zero /\ range = U32Zero
    /\ code = U32Zero /\ astream = <<>> /\ aoff = 0 /\ abits = <<>> /\ ai = 0
    /\ aerr = NoError /\ hShifts = 0 /\ hLow = U32Zero /\ hCarry = FALSE

NoResult == [state |-> "none", bits |-> <<>>, err |-> NoError]

BitsIdle ==
    /\ bjob = "idle" /\ bpc = "idle" /\ bsyms = <<>>
    /\ bres = [t \in {"Good", "Bad"} |-> NoResult]
    /\ pbits = <<>> /\ pidx = 0
    /\ wBuffer = <<>> /\ wCurrentByte = 0 /\ wBitPos = 0 /\ wRet = <<>>
    /\ hBits = <<>> /\ hFlushes = 0 /\ hPrevRet = <<>>
    /\ rData = <<>> /\ rByteIndex = 0 /\ rBitPos = 0 /\ rRes = <<>>
    /\ berr = NoError /\ hCalls = 0 /\ hFails = 0 /\ hOps = <<>> /\ rOut = <<>>

RansInit ==
    /\ ri = 0 /\ idx = 0 /\ dout = <<>> /\ rerr = NoError /\ hX0 = U32Zero
    /\ \/ /\ rjob = "roundtrip"
          /\ symbols \in SeqsUpTo(Alphabet, MaxSyms)
          /\ stream = <<>>
          /\ rpc = "enc_start"
          /\ freq = ZeroTable /\ cum = ZeroTable /\ x = U32Zero
       \/ /\ rjob = "crafted"
          /\ symbols = <<>>
          /\ stream \in CraftedRansLong \cup CraftedRansShort
          /\ rpc = "dec_start"
          /\ freq = ZeroTable /\ cum = ZeroTable /\ x = U32Zero
       \/ /\ rjob = "step"
          /\ \E t \in StepTables, s \in Alphabet :
                /\ freq = [k \in Alphabet |-> t[k + 1]]
                /\ cum = CumTable([k \in Alphabet |-> t[k + 1]])
                /\ symbols = <<s>>
                /\ \E n \in StepStates(t[s + 1]) : x = U32FromNat(n)
          /\ stream = <<>>
          /\ rpc = "step_start"
    /\ ArithIdle
    /\ BitsIdle

RansNext ==
    \/ RansEncodeBegin
    \/ RansEncodeStep
    \/ RansEncodeFlush
    \/ RansDecodeBegin
    \/ RansDecodeStep
    \/ RansDecodeReturn
    \/ RansStepEncode
    \/ RansStepDecode

SpecRans == RansInit /\ [][RansNext]_vars

-----------------------------------------------------------------------------
(* Properties of the rANS coder, stated for SpecRans.                      *)

\* the frequency stored for symbol k in the header of stream, read straight
\* from the bytes at offsets 4 + 2k and 5 + 2k
HeaderFreq(k) == stream[5 + 2 * k] + 256 * stream[6 + 2 * k]
HeaderFreqSum == HeaderFreq(0) + HeaderFreq(1) + HeaderFreq(2) + HeaderFreq(3)

\* ransEncode has written its header
RansHeaderWritten == rjob = "roundtrip" /\ Len(symbols) >= 1 /\ rpc # "enc_start"
\* ransDecode has returned or thrown
RansDecodeOver == rpc \in {"dec_done", "dec_fail"}
\* ransDecode has been called and is past its header checks, or has thrown
RansDecodeEntered == rpc \in {"dec_loop", "dec_done", "dec_fail"}

\* C1: rANS round trip. For every symbol sequence of length >= 1 over
\* {0,1,2,3}, ransDecode(ransEncode(s)) returns (no exception) a sequence of
\* the same length holding s[i] at every index i.
C1_RansRoundTrip ==
    (rjob = "roundtrip" /\ Len(symbols) >= 1 /\ RansDecodeOver)
        => (rpc = "dec_done" /\ dout = symbols)

\* C3: rANS frequency invariant. For every nonempty symbol sequence the four
\* frequencies ransEncode writes into the header are each >= 1 and sum to
\* exactly 4096.
C3_FrequencyInvariant ==
    RansHeaderWritten
        => /\ \A k \in Alphabet : HeaderFreq(k) >= 1
           /\ HeaderFreqSum = 4096

\* C3 witness: the encoder has finished on an input whose scaled frequencies
\* overshoot 4096, so the decrement-largest loop has run.
C3_Witness ==
    /\ RansHeaderWritten
    /\ rpc = "enc_done"
    /\ Len(symbols) >= 2
    /\ LET counts == [k \in Alphabet |->
                        Cardinality({n \in 1 .. Len(symbols) : symbols[n] = k})]
       IN  /\ counts[0] = 0
           /\ counts[1] >= 1
           /\ counts[2] >= 1

\* C4: ransDecode rejects every inconsistent total. Every stream of at least
\* 12 bytes whose four header frequencies are nonzero and whose integer sum
\* is not 4096 is refused with the total-frequency error, no symbol returned.
C4_RejectsInconsistentTotal ==
    (RansDecodeEntered /\ Len(stream) >= 12
        /\ (\A k \in Alphabet : HeaderFreq(k) # 0) /\ HeaderFreqSum # 4096)
        => (rpc = "dec_fail" /\ rerr = ErrTotalFreq /\ dout = <<>>)

\* C5: empty rANS boundary. ransEncode of the empty sequence returns an empty
\* buffer, and ransDecode of that empty buffer returns the empty sequence.
C5_EmptyBoundary ==
    (rjob = "roundtrip" /\ symbols = <<>>)
        => /\ (rpc = "enc_done" => stream = <<>>)
           /\ (RansDecodeOver => (rpc = "dec_done" /\ dout = <<>>))

\* C6: rANS state lower bound. After every symbol step the state x is at
\* least RANS_L = 2^23: in ransEncode for every nonempty input, and in
\* ransDecode run on the stream the encoder produced.
C6_StateLowerBound ==
    rjob = "roundtrip"
        => /\ (rpc = "enc_loop" /\ ri < Len(symbols) - 1) => U32Le(RansL32, x)
           /\ (rpc = "dec_loop" /\ ri < Len(dout) - 1) => U32Le(RansL32, x)

\* C10: ransDecode header validation. Decoding fails, with no symbol
\* produced, for every stream shorter than 12 bytes (the too-short error) and
\* for every stream of at least 12 bytes in which one of the four header
\* frequencies is 0 (the zero-frequency error).
C10_RansHeaderValidation ==
    RansDecodeEntered
        => /\ Len(stream) < 12
                => (rpc = "dec_fail" /\ rerr = ErrTooShort /\ dout = <<>>)
           /\ (Len(stream) >= 12 /\ \E k \in Alphabet : HeaderFreq(k) = 0)
                => (rpc = "dec_fail" /\ rerr = ErrZeroFreq /\ dout = <<>>)

\* C10 witness: a hand-made stream with a full header whose only zero
\* frequency is the last one has been refused.
C10_Witness ==
    /\ rjob = "crafted"
    /\ rpc = "dec_fail"
    /\ Len(stream) >= 12
    /\ HeaderFreq(3) = 0
    /\ \A k \in 0 .. 2 : HeaderFreq(k) # 0

\* C11: ransDecode state-init truncation. Every stream of 12 to 15 bytes, too
\* short to hold the header and the four state bytes, is refused with an
\* error: no symbol is returned and the initial state is never assembled
\* from header bytes.
C11_StateInitTruncation ==
    (RansDecodeEntered /\ Len(stream) >= 12 /\ Len(stream) < 16)
        => (rpc = "dec_fail" /\ dout = <<>> /\ x = U32Zero)

\* C19: rANS single-step inverse. For a table with every frequency >= 1 and
\* sum 4096, a symbol s and a state x < 2^15 * freq[s], the decoder step
\* applied to the encoder transform of (x, s) yields the symbol s and the
\* state x again.
C19_SingleStepInverse ==
    (rjob = "step" /\ rpc = "step_dec") => (dout = symbols /\ x = hX0)

\* C19 witness: a step has been undone for symbol 2, whose cumulative
\* frequency is not 0 and whose frequency is above 1, from a starting state
\* at or above RANS_L.
C19_Witness ==
    /\ rjob = "step"
    /\ rpc = "step_dec"
    /\ symbols[1] = 2
    /\ freq[2] > 1
    /\ U32Le(RansL32, hX0)
    /\ dout = <<2>>

\* C20: rANS renormalization symmetry. On the stream ransEncode(s) produced,
\* ransDecode pulls back exactly the payload bytes the encoder emitted, so
\* when the last symbol has been decoded the read cursor idx is 12 and the
\* state x is RANS_L again.
C20_RenormSymmetry ==
    (rjob = "roundtrip" /\ Len(symbols) >= 1 /\ rpc = "dec_done")
        => (idx = DataStart /\ x = RansL32)

-----------------------------------------------------------------------------
(* Binary range coder, Code/src/cabac.cpp.                                 *)

ErrArithTooShort == "arithDecodeBits: stream too short"
ErrArithCounts == "arithDecodeBits: invalid counts"
ErrArithNoData == "arithDecodeBits: no data bytes"

\* the fixed header: numBits, count0, count1
ArithHeaderSize == 12

U32One == <<0, 1>>

\* the counting loop: ++count0 for a 0, ++count1 for anything else
RECURSIVE CountBits(_, _, _, _)
CountBits(bs, n, c0, c1) ==
    IF n > Len(bs) THEN <<c0, c1>>
    ELSE IF bs[n] = 0 THEN CountBits(bs, n + 1, U32Add(c0, U32One), c1)
    ELSE CountBits(bs, n + 1, c0, U32Add(c1, U32One))

\* "avoid degenerate probs": a count of 0 becomes 1
ClampCount(c) == IF c = U32Zero THEN U32One ELSE c

\* mutant of InvalidCounts: && written for ||
InvalidCountsBoth(c0, c1) == c0 = U32Zero /\ c1 = U32Zero

\* the decoder's check count0 == 0 || count1 == 0
InvalidCounts(c0, c1) == c0 = U32Zero \/ c1 = U32Zero

\* rangeRef < (1u << 24)
BelowRenorm(rng) == Hi(rng) < W8

\* split = r * count0, where r = range / total
ArithSplit(r, c0) == U32Mul(r, c0)

\* the encoder's renormalize lambda for range # 0: <<low, range, out, shifts>>
RECURSIVE EncRenormalize(_, _, _, _)
EncRenormalize(lo, rng, out, n) ==
    IF BelowRenorm(rng)
    THEN EncRenormalize(U32Shl8(lo), U32Shl8(rng), Append(out, U32TopByte(lo)), n + 1)
    ELSE <<lo, rng, out, n>>

\* mutant of ArithFlush: the low byte is pushed first, as rANS flushes its state
RECURSIVE ArithFlushLowFirst(_, _, _)
ArithFlushLowFirst(lo, out, n) ==
    IF n = 0 THEN <<lo, out>>
    ELSE ArithFlushLowFirst(U32Shr8(lo), Append(out, U32LowByte(lo)), n - 1)

\* the flush loop: out.push_back(low >> 24); low <<= 8, four times: <<low, out>>
RECURSIVE ArithFlush(_, _, _)
ArithFlush(lo, out, n) ==
    IF n = 0 THEN <<lo, out>>
    ELSE ArithFlush(U32Shl8(lo), Append(out, U32TopByte(lo)), n - 1)

\* code = (code << 8) | stream[offset++], four times from offset 12
RECURSIVE ReadCode(_, _, _, _)
ReadCode(in, off, c, n) ==
    IF n = 0 THEN c
    ELSE ReadCode(in, off + 1, U32ShiftIn(c, in[off + 1]), n - 1)

\* the decoder's renormalize lambda for range # 0: <<low, range, code, offset>>
RECURSIVE DecRenormalize(_, _, _, _, _)
DecRenormalize(lo, rng, cd, in, off) ==
    IF BelowRenorm(rng)
    THEN LET nextByte == IF off < Len(in) THEN in[off + 1] ELSE 0
         IN  DecRenormalize(U32Shl8(lo), U32Shl8(rng), U32ShiftIn(cd, nextByte), in,
                            IF off < Len(in) THEN off + 1 ELSE off)
    ELSE <<lo, rng, cd, off>>

\* range / total. Division by zero is undefined behaviour: the build traps
\* (x86), or the instruction yields 0 (ARM) or all ones (RISC-V).
DivOutcomes(rng, total) ==
    IF total = U32Zero THEN {"trap", U32Zero, U32Max} ELSE {U32Div(rng, total)}

ArithEncodeBegin ==
    /\ apc = "enc_start"
    /\ LET cnt == CountBits(bits, 1, U32Zero, U32Zero)
           c0 == ClampCount(cnt[1])
           c1 == ClampCount(cnt[2])
       IN  /\ numBits' = U32FromNat(Len(bits))
           /\ count0' = c0
           /\ count1' = c1
           /\ astream' = writeU32LE(U32FromNat(Len(bits))) \o writeU32LE(c0)
                            \o writeU32LE(c1)
    /\ low' = U32Zero
    /\ range' = U32Max
    /\ ai' = 0
    /\ apc' = "enc_loop"
    /\ UNCHANGED <<ajob, bits, code, aoff, abits, aerr, hShifts, hLow, hCarry>>
    /\ UNCHANGED <<rvars, bvars>>

ArithEncodeStep ==
    /\ apc = "enc_loop"
    /\ ai < Len(bits)
    /\ LET total == U32Add(count0, count1)
           r == U32Div(range, total)
           split == ArithSplit(r, count0)
           lo1 == IF bits[ai + 1] = 0 THEN low ELSE U32Add(low, split)
           rng1 == IF bits[ai + 1] = 0 THEN split ELSE U32Sub(range, split)
       IN  /\ hCarry' = (hCarry \/ U32Lt(lo1, low))
           /\ IF rng1 = U32Zero
              THEN \* while (range < 2^24) never ends: 0 << 8 == 0
                   /\ apc' = "enc_hang"
                   /\ low' = lo1
                   /\ range' = rng1
                   /\ UNCHANGED <<astream, hShifts, ai>>
              ELSE LET rn == EncRenormalize(lo1, rng1, astream, hShifts)
                   IN  /\ low' = rn[1]
                       /\ range' = rn[2]
                       /\ astream' = rn[3]
                       /\ hShifts' = rn[4]
                       /\ ai' = ai + 1
                       /\ apc' = apc
    /\ UNCHANGED <<ajob, bits, numBits, count0, count1, code, aoff, abits, aerr, hLow>>
    /\ UNCHANGED <<rvars, bvars>>

ArithEncodeFlush ==
    /\ apc = "enc_loop"
    /\ ai >= Len(bits)
    /\ LET fl == ArithFlush(low, astream, 4)
       IN  /\ low' = fl[1]
           /\ astream' = fl[2]
    /\ hLow' = low
    /\ hCarry' = hCarry
    /\ apc' = "enc_done"
    /\ UNCHANGED <<ajob, bits, numBits, count0, count1, range, code, aoff, abits,
                   ai, aerr, hShifts>>
    /\ UNCHANGED <<rvars, bvars>>

ArithDecodeBegin ==
    /\ apc \in {"enc_done", "dec_start"}
    /\ IF Len(astream) < 12
       THEN /\ apc' = "dec_fail"
            /\ aerr' = ErrArithTooShort
            /\ UNCHANGED <<numBits, count0, count1, low, range, code, aoff, abits, ai>>
       ELSE LET n == readU32LEAt(astream, 0)
                c0 == readU32LEAt(astream, 4)
                c1 == readU32LEAt(astream, 8)
            IN  IF InvalidCounts(c0, c1)
                THEN /\ apc' = "dec_fail"
                     /\ aerr' = ErrArithCounts
                     /\ numBits' = n /\ count0' = c0 /\ count1' = c1
                     /\ aoff' = ArithHeaderSize
                     /\ UNCHANGED <<low, range, code, abits, ai>>
                ELSE IF ArithHeaderSize + 4 > Len(astream)
                THEN /\ apc' = "dec_fail"
                     /\ aerr' = ErrArithNoData
                     /\ numBits' = n /\ count0' = c0 /\ count1' = c1
                     /\ aoff' = ArithHeaderSize
                     /\ low' = U32Zero /\ range' = U32Max /\ code' = U32Zero
                     /\ UNCHANGED <<abits, ai>>
                ELSE /\ numBits' = n /\ count0' = c0 /\ count1' = c1
                     /\ low' = U32Zero
                     /\ range' = U32Max
                     /\ code' = ReadCode(astream, ArithHeaderSize, U32Zero, 4)
                     /\ aoff' = ArithHeaderSize + 4
                     /\ abits' = <<>>
                     /\ ai' = 0
                     /\ apc' = "dec_loop"
                     /\ aerr' = aerr
    /\ UNCHANGED <<ajob, bits, astream, hShifts, hLow, hCarry>>
    /\ UNCHANGED <<rvars, bvars>>

ArithDecodeStep ==
    /\ apc = "dec_loop"
    /\ U32Lt(U32FromNat(ai), numBits)
    /\ \E r \in DivOutcomes(range, U32Add(count0, count1)) :
        IF r = "trap"
        THEN /\ apc' = "dec_trap"
             /\ UNCHANGED <<low, range, code, aoff, abits, ai>>
        ELSE LET split == ArithSplit(r, count0)
                 rel == U32Sub(code, low)
                 bit == IF U32Lt(rel, split) THEN 0 ELSE 1
                 lo1 == IF bit = 0 THEN low ELSE U32Add(low, split)
                 rng1 == IF bit = 0 THEN split ELSE U32Sub(range, split)
             IN  /\ abits' = Append(abits, bit)
                 /\ IF rng1 = U32Zero
                    THEN \* while (range < 2^24) never ends: 0 << 8 == 0
                         /\ apc' = "dec_hang"
                         /\ low' = lo1
                         /\ range' = rng1
                         /\ UNCHANGED <<code, aoff, ai>>
                    ELSE LET rn == DecRenormalize(lo1, rng1, code, astream, aoff)
                         IN  /\ low' = rn[1]
                             /\ range' = rn[2]
                             /\ code' = rn[3]
                             /\ aoff' = rn[4]
                             /\ ai' = ai + 1
                             /\ apc' = apc
    /\ UNCHANGED <<ajob, bits, numBits, count0, count1, astream, aerr, hShifts, hLow, hCarry>>
    /\ UNCHANGED <<rvars, bvars>>

ArithDecodeReturn ==
    /\ apc = "dec_loop"
    /\ ~U32Lt(U32FromNat(ai), numBits)
    /\ apc' = "dec_done"
    /\ UNCHANGED <<ajob, bits, numBits, count0, count1, low, range, code, astream,
                   aoff, abits, ai, aerr, hShifts, hLow, hCarry>>
    /\ UNCHANGED <<rvars, bvars>>

-----------------------------------------------------------------------------
(* The inputs of the range-coder model.                                    *)

\* the 12-bit pattern of testArithmeticCoder
FixedPattern == <<0, 1, 0, 1, 1, 0, 0, 0, 1, 1, 1, 0>>

\* header counts of hand-made streams: zero, small, and values whose 32-bit
\* sum wraps
CraftCounts == { U32Zero, U32One, <<0, 3>>, <<32768, 0>>, <<32768, 1>>, U32Max }

\* what follows the header of a hand-made stream
CraftPayloads ==
    { <<>>, <<0, 0, 0>>, <<0, 0, 0, 0>>, <<255, 255, 255, 255>>, <<128, 0, 0, 0, 7>> }

CraftedArithLong ==
    { writeU32LE(U32FromNat(n)) \o writeU32LE(c0) \o writeU32LE(c1) \o pl :
        n \in 0 .. MaxCraftBits, c0 \in CraftCounts, c1 \in CraftCounts,
        pl \in CraftPayloads }

CraftedArithShort == { [k \in 1 .. n |-> b] : n \in 0 .. 11, b \in {0, 1, 255} }

ArithInit ==
    /\ numBits = U32Zero /\ count0 = U32Zero /\ count1 = U32Zero /\ low = U32Zero
    /\ range = U32Zero /\ code = U32Zero /\ aoff = 0 /\ abits = <<>> /\ ai = 0
    /\ aerr = NoError /\ hShifts = 0 /\ hLow = U32Zero /\ hCarry = FALSE
    /\ \/ /\ ajob = "roundtrip"
          /\ bits \in SeqsUpTo({0, 1}, MaxBits) \cup {FixedPattern}
          /\ astream = <<>>
          /\ apc = "enc_start"
       \/ /\ ajob = "crafted"
          /\ bits = <<>>
          /\ astream \in CraftedArithLong \cup CraftedArithShort
          /\ apc = "dec_start"
    /\ RansIdle
    /\ BitsIdle

ArithNext ==
    \/ ArithEncodeBegin
    \/ ArithEncodeStep
    \/ ArithEncodeFlush
    \/ ArithDecodeBegin
    \/ ArithDecodeStep
    \/ ArithDecodeReturn

SpecArith == ArithInit /\ [][ArithNext]_vars

-----------------------------------------------------------------------------
(* Properties of the range coder, stated for SpecArith.                    *)

\* arithDecodeBits has returned, thrown, trapped or stopped making progress
ArithDecodeOver == apc \in {"dec_done", "dec_fail", "dec_hang", "dec_trap"}
\* arithDecodeBits has been called and is past its header checks, or is over
ArithDecodeEntered == apc = "dec_loop" \/ ArithDecodeOver
\* arithEncodeBits has returned
ArithEncodeReturned == ajob = "roundtrip" /\ (apc = "enc_done" \/ ArithDecodeEntered)

\* a natural number below 2^31 as four bytes, least significant first
NatBytesLE(n) ==
    << n % 256, (n \div 256) % 256, (n \div 65536) % 256, n \div 16777216 >>
\* a 32-bit register as four bytes, most significant first
RegBytesBE(v) == << v[1] \div 256, v[1] % 256, v[2] \div 256, v[2] % 256 >>

\* the number of entries of bs equal to b
Occurrences(bs, b) == Cardinality({n \in 1 .. Len(bs) : bs[n] = b})
AtLeastOne(n) == IF n < 1 THEN 1 ELSE n

\* the 32-bit header field stored at 0-based offset off of astream is zero
StoredFieldZero(off) == \A n \in 1 .. 4 : astream[off + n] = 0

\* C2: range-coder round trip. For every bit sequence b (the empty, all-0 and
\* all-1 sequences included), arithDecodeBits(arithEncodeBits(b)) returns b.
C2_ArithRoundTrip ==
    (ajob = "roundtrip" /\ ArithDecodeOver) => (apc = "dec_done" /\ abits = bits)

\* C7: range-coder renormalization invariant. In encoder and decoder alike,
\* the renormalization loop that follows a bit step terminates with range in
\* [2^24, 2^32), so range >= 2^24 (and range # 0) at the start of every bit
\* step.
C7_RenormalizationInvariant ==
    /\ apc \notin {"enc_hang", "dec_hang"}
    /\ apc \in {"enc_loop", "dec_loop"} => (~BelowRenorm(range) /\ range # U32Zero)

\* C8: range-coder stream format. arithEncodeBits(b) begins with the three
\* little-endian 32-bit fields |b|, max(1, number of 0 bits), max(1, number of
\* 1 bits), continues with one payload byte per renormalization shift and
\* ends with the four bytes of the final low register, most significant
\* first; for the empty sequence it is exactly 16 bytes.
C8_StreamFormat ==
    /\ (ajob = "roundtrip" /\ apc = "enc_loop")
            => Len(astream) = 12 + hShifts
    /\ ArithEncodeReturned
            => /\ Len(astream) = 12 + hShifts + 4
               /\ SubSeq(astream, 1, 4) = NatBytesLE(Len(bits))
               /\ SubSeq(astream, 5, 8) = NatBytesLE(AtLeastOne(Occurrences(bits, 0)))
               /\ SubSeq(astream, 9, 12) = NatBytesLE(AtLeastOne(Occurrences(bits, 1)))
               /\ SubSeq(astream, Len(astream) - 3, Len(astream)) = RegBytesBE(hLow)
               /\ bits = <<>> => Len(astream) = 16

\* C8 witness: the encoder has returned after at least one renormalization
\* shift, with a final low register whose four bytes are not all equal.
C8_Witness ==
    /\ ajob = "roundtrip"
    /\ apc = "enc_done"
    /\ hShifts >= 1
    /\ hLow[1] \div 256 # hLow[2] % 256

\* C9: arithDecodeBits header validation. Decoding fails, returning no bits,
\* for every stream shorter than 16 bytes and for every stream whose stored
\* count0 or count1 is 0.
C9_ArithHeaderValidation ==
    ArithDecodeEntered
        => /\ Len(astream) < 16
                => /\ apc = "dec_fail"
                   /\ abits = <<>>
                   /\ aerr \in {ErrArithTooShort, ErrArithCounts, ErrArithNoData}
           /\ (Len(astream) >= 12 /\ (StoredFieldZero(4) \/ StoredFieldZero(8)))
                => (apc = "dec_fail" /\ abits = <<>> /\ aerr = ErrArithCounts)

\* C9 witness: a stream of at least 16 bytes whose count0 is nonzero and whose
\* count1 is 0 has been refused.
C9_Witness ==
    /\ ajob = "crafted"
    /\ apc = "dec_fail"
    /\ Len(astream) >= 16
    /\ ~StoredFieldZero(4)
    /\ StoredFieldZero(8)

\* a + b <= 2^32 as integers, for two 32-bit registers
SumWithin32(a, b) ==
    LET lo == Lo(a) + Lo(b)
        hi == Hi(a) + Hi(b) + lo \div W16
    IN  hi < W16 \/ (hi = W16 /\ lo % W16 = 0)

\* C21: no lost carry in the range encoder. In arithEncodeBits low + range
\* <= 2^32 at every bit step, renormalization shifts included, and the 32-bit
\* addition low += split never wraps, so no carry into an emitted byte is
\* dropped.
C21_NoLostCarry ==
    ajob = "roundtrip"
        => /\ ~hCarry
           /\ apc = "enc_loop" => SumWithin32(low, range)

\* arithDecodeBits is past its header checks
ArithHeaderAccepted == apc \in {"dec_loop", "dec_done", "dec_hang", "dec_trap"}

\* C18: the range decoder runs past the end of data. On every stream that
\* passes the header checks arithDecodeBits runs its numBits bit steps and
\* returns exactly numBits bits, whatever the payload length; its read
\* offset never goes beyond the stream length.
C18_DecodeRunsNumBits ==
    ArithHeaderAccepted
        => /\ apc \notin {"dec_hang", "dec_trap"}
           /\ aoff <= Len(astream)
           /\ apc = "dec_done" => Len(abits) = U32ToNat(numBits)

\* C22: no division by zero in the range decoder. For every stream that
\* passes the header checks of arithDecodeBits (length >= 16, count0 # 0,
\* count1 # 0) with numBits >= 1, the 32-bit sum total = count0 + count1 is
\* nonzero, so range / total is defined at every bit step.
C22_NoDivisionByZero ==
    (ArithHeaderAccepted /\ numBits # U32Zero)
        => (U32Add(count0, count1) # U32Zero /\ apc # "dec_trap")

-----------------------------------------------------------------------------
(* Binarizer, Code/src/cabac.cpp, and bit I/O, Code/src/bitstream.cpp.     *)

ErrBinarize == "symbol out of range (0..3)"
ErrOutOfData == "BitReader: out of data"

\* BinarizationType
Codebooks == {"Good", "Bad"}

\* mutant of GOOD_TABLE: the codewords of BAD_TABLE
GoodTableAsBad ==
    [k \in 0 .. 3 |-> << <<1, 1, 1, 0>>, <<1, 1, 0>>, <<1, 0>>, <<0>> >>[k + 1]]

\* GOOD_TABLE[symbol]
GOOD_TABLE ==
    [k \in 0 .. 3 |-> << <<0>>, <<1, 0>>, <<1, 1, 0>>, <<1, 1, 1, 0>> >>[k + 1]]

\* mutant of BAD_TABLE: the codewords of symbols 1 and 2 exchanged
BadTableSwapped ==
    [k \in 0 .. 3 |-> << <<1, 1, 1, 0>>, <<1, 0>>, <<1, 1, 0>>, <<0>> >>[k + 1]]

\* BAD_TABLE[symbol]
BAD_TABLE ==
    [k \in 0 .. 3 |-> << <<1, 1, 1, 0>>, <<1, 1, 0>>, <<1, 0>>, <<0>> >>[k + 1]]

\* what a binarizer call does: it throws, or it returns bits
Thrown(e) == [state |-> "thrown", bits |-> <<>>, err |-> e]
Returned(bs) == [state |-> "returned", bits |-> bs, err |-> NoError]

binarizeSymbol(symbol, type) ==
    IF symbol < 0 \/ symbol > 3 THEN Thrown(ErrBinarize)
    ELSE IF type = "Good" THEN Returned(GOOD_TABLE[symbol])
    ELSE Returned(BAD_TABLE[symbol])

\* mutant of BinarizeLoop: the exception is swallowed and the bits gathered
\* so far are returned
RECURSIVE BinarizeLoopPartial(_, _, _, _)
BinarizeLoopPartial(syms, type, n, bs) ==
    IF n > Len(syms) THEN Returned(bs)
    ELSE LET b == binarizeSymbol(syms[n], type)
         IN  IF b.state = "thrown" THEN Returned(bs)
             ELSE BinarizeLoopPartial(syms, type, n + 1, bs \o b.bits)

\* the loop of binarizeSequence from the n-th symbol on, bs gathered so far;
\* an exception of binarizeSymbol leaves the function
RECURSIVE BinarizeLoop(_, _, _, _)
BinarizeLoop(syms, type, n, bs) ==
    IF n > Len(syms) THEN Returned(bs)
    ELSE LET b == binarizeSymbol(syms[n], type)
         IN  IF b.state = "thrown" THEN b
             ELSE BinarizeLoop(syms, type, n + 1, bs \o b.bits)

binarizeSequence(syms, type) == BinarizeLoop(syms, type, 1, <<>>)

\* the BitWriter object
Writer == [buffer |-> wBuffer, currentByte |-> wCurrentByte, bitPos |-> wBitPos]

\* mutant of OrBit: the bit goes to position 7 - pos
OrBitMsbFirst(byte, bit, pos) ==
    IF bit = 1 /\ (byte \div (2 ^ (7 - pos))) % 2 = 0 THEN byte + 2 ^ (7 - pos)
    ELSE byte

\* currentByte_ |= (bit ? 1u : 0u) << bitPos_, kept in a uint8_t
OrBit(byte, bit, pos) ==
    IF bit = 1 /\ (byte \div (2 ^ pos)) % 2 = 0 THEN (byte + 2 ^ pos) % W8
    ELSE byte

\* BitWriter::writeBit
writeBit(w, bit) ==
    LET cb == OrBit(w.currentByte, bit, w.bitPos)
    IN  IF w.bitPos + 1 = 8
        THEN [buffer |-> Append(w.buffer, cb), currentByte |-> 0, bitPos |-> 0]
        ELSE [buffer |-> w.buffer, currentByte |-> cb, bitPos |-> w.bitPos + 1]

\* the loop of BitWriter::writeBits from bit i on
RECURSIVE WriteBitsLoop(_, _, _, _)
WriteBitsLoop(w, value, nBits, i) ==
    IF i >= nBits THEN w
    ELSE LET w1 == writeBit(w, U32Bit(value, i))
         IN  \* bitPos_ is below 8 after every writeBit; testing it computes
             \* each iteration before the next one starts
             IF w1.bitPos < 8 THEN WriteBitsLoop(w1, value, nBits, i + 1)
             ELSE w1

\* BitWriter::writeBits
writeBits(w, value, nBits) == WriteBitsLoop(w, value, nBits, 0)

\* the bits writeBits hands to writeBit, in order
BitsOfValue(value, nBits, i) ==
    [j \in 1 .. (nBits - i) |-> U32Bit(value, i + j - 1)]

\* mutant of flush: the partial byte is committed but bitPos_ is not reset
flushKeepBitPos(w) ==
    IF w.bitPos # 0
    THEN [buffer |-> Append(w.buffer, w.currentByte), currentByte |-> 0,
          bitPos |-> w.bitPos]
    ELSE w

\* BitWriter::flush: the writer afterwards; its buffer is the return value
flush(w) ==
    IF w.bitPos # 0
    THEN [buffer |-> Append(w.buffer, w.currentByte), currentByte |-> 0, bitPos |-> 0]
    ELSE w

\* mutant of BitAt: bits are taken from the most significant end
BitAtMsbFirst(byte, pos) == (byte \div (2 ^ (7 - pos))) % 2

\* (data_[byteIndex_] >> bitPos_) & 1u
BitAt(byte, pos) == (byte \div (2 ^ pos)) % 2

\* BitReader::readBit on the cursor (byteIndex, bitPos)
readBit(data, byteIndex, bitPos) ==
    IF byteIndex >= Len(data)
    THEN [thrown |-> TRUE, bit |-> 0, byteIndex |-> byteIndex, bitPos |-> bitPos]
    ELSE [thrown |-> FALSE, bit |-> BitAt(data[byteIndex + 1], bitPos),
          byteIndex |-> IF bitPos + 1 = 8 THEN byteIndex + 1 ELSE byteIndex,
          bitPos |-> IF bitPos + 1 = 8 THEN 0 ELSE bitPos + 1]

\* mutant of OrPow2: the bit goes to position 31 - i
OrPow2High(v, i) ==
    IF U32Bit(v, 31 - i) = 1 THEN v ELSE U32Add(v, U32Pow2(31 - i))

\* v |= (1u << i)
OrPow2(v, i) == IF U32Bit(v, i) = 1 THEN v ELSE U32Add(v, U32Pow2(i))

\* one iteration of the loop of BitReader::readBits
ReadBitsStep(data, st, i) ==
    LET r == readBit(data, st.byteIndex, st.bitPos)
    IN  IF r.thrown
        THEN [thrown |-> TRUE, value |-> st.value, byteIndex |-> st.byteIndex,
              bitPos |-> st.bitPos]
        ELSE [thrown |-> FALSE,
              value |-> IF r.bit = 1 THEN OrPow2(st.value, i) ELSE st.value,
              byteIndex |-> r.byteIndex, bitPos |-> r.bitPos]

\* iterations i .. j-1 of the loop of BitReader::readBits
RECURSIVE ReadBitsLoop(_, _, _, _)
ReadBitsLoop(data, st, i, j) ==
    IF j <= i THEN st
    ELSE IF j = i + 1 THEN ReadBitsStep(data, st, i)
    ELSE LET m == (i + j) \div 2
             mid == ReadBitsLoop(data, st, i, m)
         IN  IF mid.thrown THEN mid ELSE ReadBitsLoop(data, mid, m, j)

\* BitReader::readBits on the cursor (byteIndex, bitPos)
readBits(data, byteIndex, bitPos, nBits) ==
    ReadBitsLoop(data, [thrown |-> FALSE, value |-> U32Zero,
                        byteIndex |-> byteIndex, bitPos |-> bitPos], 0, nBits)

BinarizeSymbolCall ==
    /\ bjob = "symbol"
    /\ \E t \in Codebooks :
        /\ bres[t].state = "none"
        /\ bres' = [bres EXCEPT ![t] = binarizeSymbol(bsyms[1], t)]
    /\ UNCHANGED <<bjob, bpc, bsyms, pbits, pidx, wBuffer, wCurrentByte, wBitPos,
                   wRet, hBits, hFlushes, hPrevRet, rData, rByteIndex, rBitPos,
                   rRes, berr, hCalls, hFails, hOps, rOut>>
    /\ UNCHANGED <<rvars, avars>>

BinarizeSequenceCall ==
    /\ bjob = "sequence"
    /\ \E t \in Codebooks :
        /\ bres[t].state = "none"
        /\ bres' = [bres EXCEPT ![t] = binarizeSequence(bsyms, t)]
    /\ UNCHANGED <<bjob, bpc, bsyms, pbits, pidx, wBuffer, wCurrentByte, wBitPos,
                   wRet, hBits, hFlushes, hPrevRet, rData, rByteIndex, rBitPos,
                   rRes, berr, hCalls, hFails, hOps, rOut>>
    /\ UNCHANGED <<rvars, avars>>

\* one iteration of packBitsToBytes's loop: bw.writeBit(b != 0)
PackWriteBit ==
    /\ bjob = "pack"
    /\ bpc = "pack_loop"
    /\ pidx < Len(pbits)
    /\ LET bit == IF pbits[pidx + 1] # 0 THEN 1 ELSE 0
           w == writeBit(Writer, bit)
       IN  /\ wBuffer' = w.buffer
           /\ wCurrentByte' = w.currentByte
           /\ wBitPos' = w.bitPos
           /\ hBits' = Append(hBits, bit)
    /\ pidx' = pidx + 1
    /\ UNCHANGED <<bjob, bpc, bsyms, bres, pbits, wRet, hFlushes, hPrevRet, rData,
                   rByteIndex, rBitPos, rRes, berr, hCalls, hFails, hOps, rOut>>
    /\ UNCHANGED <<rvars, avars>>

\* return bw.flush()
PackFlush ==
    /\ bjob = "pack"
    /\ bpc = "pack_loop"
    /\ pidx >= Len(pbits)
    /\ LET w == flush(Writer)
       IN  /\ wBuffer' = w.buffer
           /\ wCurrentByte' = w.currentByte
           /\ wBitPos' = w.bitPos
           /\ wRet' = w.buffer
    /\ hPrevRet' = wRet
    /\ hFlushes' = hFlushes + 1
    /\ bpc' = "pack_done"
    /\ UNCHANGED <<bjob, bsyms, bres, pbits, pidx, hBits, rData, rByteIndex,
                   rBitPos, rRes, berr, hCalls, hFails, hOps, rOut>>
    /\ UNCHANGED <<rvars, avars>>

\* values given to writeBits
WriteValues == { <<0, 5>>, <<32768, 1>>, <<43981, 4660>>, U32Max }
\* widths given to writeBits
WriteWidths == {0, 1, 3, 8, 32}

\* longest bit history after which the writer is still written to
MaxWriteBits == 8
\* number of flush() calls in a row
MaxFlushes == 2
\* number of writeBit / writeBits calls made on one writer
MaxWriteCalls == 3

\* bw.writeBit(b)
WriteBit ==
    /\ bjob = "writer"
    /\ bpc = "writing"
    /\ Len(hBits) <= MaxWriteBits
    /\ Len(hOps) < MaxWriteCalls
    /\ \E b \in {0, 1} :
        LET w == writeBit(Writer, b)
        IN  /\ wBuffer' = w.buffer
            /\ wCurrentByte' = w.currentByte
            /\ wBitPos' = w.bitPos
            /\ hBits' = Append(hBits, b)
            /\ hOps' = Append(hOps, [single |-> TRUE, value |-> <<0, b>>, n |-> 1])
    /\ UNCHANGED <<bjob, bpc, bsyms, bres, pbits, pidx, wRet, hFlushes, hPrevRet,
                   rData, rByteIndex, rBitPos, rRes, berr, hCalls, hFails, rOut>>
    /\ UNCHANGED <<rvars, avars>>

\* bw.writeBits(value, nBits)
WriteBits ==
    /\ bjob = "writer"
    /\ bpc = "writing"
    /\ Len(hBits) <= MaxWriteBits
    /\ Len(hOps) < MaxWriteCalls
    /\ \E v \in WriteValues, n \in WriteWidths :
        LET w == writeBits(Writer, v, n)
        IN  /\ wBuffer' = w.buffer
            /\ wCurrentByte' = w.currentByte
            /\ wBitPos' = w.bitPos
            /\ hBits' = hBits \o BitsOfValue(v, n, 0)
            /\ hOps' = Append(hOps, [single |-> FALSE, value |-> v, n |-> n])
    /\ UNCHANGED <<bjob, bpc, bsyms, bres, pbits, pidx, wRet, hFlushes, hPrevRet,
                   rData, rByteIndex, rBitPos, rRes, berr, hCalls, hFails, rOut>>
    /\ UNCHANGED <<rvars, avars>>

\* bw.flush(), after the writes
Flush ==
    /\ bjob = "writer"
    /\ bpc \in {"writing", "flushed"}
    /\ hFlushes < MaxFlushes
    /\ LET w == flush(Writer)
       IN  /\ wBuffer' = w.buffer
           /\ wCurrentByte' = w.currentByte
           /\ wBitPos' = w.bitPos
           /\ wRet' = w.buffer
    /\ hPrevRet' = wRet
    /\ hFlushes' = hFlushes + 1
    /\ bpc' = "flushed"
    /\ UNCHANGED <<bjob, bsyms, bres, pbits, pidx, hBits, rData, rByteIndex,
                   rBitPos, rRes, berr, hCalls, hFails, hOps, rOut>>
    /\ UNCHANGED <<rvars, avars>>

\* readBit() calls made after the data ran out
MaxFailedReads == 2

\* reader.readBit(); a caller that catches the exception may call again
ReadBit ==
    /\ bjob = "reader"
    /\ hFails < MaxFailedReads
    /\ LET r == readBit(rData, rByteIndex, rBitPos)
       IN  /\ rByteIndex' = r.byteIndex
           /\ rBitPos' = r.bitPos
           /\ IF r.thrown
              THEN /\ rRes' = <<>>
                   /\ berr' = ErrOutOfData
                   /\ hFails' = hFails + 1
                   /\ hCalls' = hCalls
              ELSE /\ rRes' = <<r.bit>>
                   /\ berr' = NoError
                   /\ hCalls' = hCalls + 1
                   /\ hFails' = hFails
    /\ UNCHANGED <<bjob, bpc, bsyms, bres, pbits, pidx, wBuffer, wCurrentByte,
                   wBitPos, wRet, hBits, hFlushes, hPrevRet, rData, hOps, rOut>>
    /\ UNCHANGED <<rvars, avars>>

\* BitReader reader(buf), buf being what the writer's flush() returned
OpenReader ==
    /\ bjob = "writer"
    /\ bpc = "flushed"
    /\ rData' = wRet
    /\ rByteIndex' = 0
    /\ rBitPos' = 0
    /\ rOut' = <<>>
    /\ bpc' = "reading_back"
    /\ UNCHANGED <<bjob, bsyms, bres, pbits, pidx, wBuffer, wCurrentByte, wBitPos,
                   wRet, hBits, hFlushes, hPrevRet, rRes, berr, hCalls, hFails, hOps>>
    /\ UNCHANGED <<rvars, avars>>

\* the read matching the next write: reader.readBit() for a writeBit,
\* reader.readBits(n) for a writeBits(v, n)
ReadBack ==
    /\ bjob = "writer"
    /\ bpc = "reading_back"
    /\ Len(rOut) < Len(hOps)
    /\ LET op == hOps[Len(rOut) + 1]
           one == readBit(rData, rByteIndex, rBitPos)
           r == IF op.single
                THEN [thrown |-> one.thrown, value |-> <<0, one.bit>>,
                      byteIndex |-> one.byteIndex, bitPos |-> one.bitPos]
                ELSE readBits(rData, rByteIndex, rBitPos, op.n)
       IN  /\ rByteIndex' = r.byteIndex
           /\ rBitPos' = r.bitPos
           /\ IF r.thrown
              THEN /\ berr' = ErrOutOfData
                   /\ bpc' = "read_fail"
                   /\ rOut' = rOut
              ELSE /\ berr' = berr
                   /\ bpc' = bpc
                   /\ rOut' = Append(rOut, r.value)
    /\ UNCHANGED <<bjob, bsyms, bres, pbits, pidx, wBuffer, wCurrentByte, wBitPos,
                   wRet, hBits, hFlushes, hPrevRet, rData, rRes, hCalls, hFails, hOps>>
    /\ UNCHANGED <<rvars, avars>>

-----------------------------------------------------------------------------
(* The inputs of the binarizer and bit I/O model.                          *)

\* longest exhaustively enumerated symbol sequence given to binarizeSequence
MaxBinSyms == 3
\* longest bit sequence given to packBitsToBytes
MaxPackBits == 9
\* longest buffer given to a BitReader
MaxReadBytes == 2

\* arguments of binarizeSymbol: the alphabet, its neighbours, the ends of int
SymbolArgs == { -2147483647, -1, 0, 1, 2, 3, 4, 5, 2147483647 }

\* arguments of binarizeSequence of length 10: every arrangement of seven 0s
\* and one each of 1, 2, 3 (frequencies 0.7/0.1/0.1/0.1), a sequence with
\* counts 6/0/2/2, and six and five 0s followed by 3s, the symbol whose
\* codeword is the longest under GOOD_TABLE and the shortest under BAD_TABLE
SkewedSeqs ==
    { [n \in 1 .. 10 |-> IF n = p[1] THEN 1 ELSE IF n = p[2] THEN 2
                         ELSE IF n = p[3] THEN 3 ELSE 0] :
        p \in { q \in (1 .. 10) \X (1 .. 10) \X (1 .. 10) :
                    q[1] # q[2] /\ q[1] # q[3] /\ q[2] # q[3] } }
    \cup { <<2, 0, 0, 2, 0, 3, 0, 3, 0, 0>>,
           <<0, 0, 0, 0, 0, 0, 3, 3, 3, 3>>,
           <<0, 0, 0, 0, 0, 3, 3, 3, 3, 3>> }

\* bytes of a BitReader's buffer
ReadBytes == {0, 1, 172, 255}

BitsInit ==
    /\ bres = [t \in Codebooks |-> NoResult]
    /\ pidx = 0
    /\ wBuffer = <<>> /\ wCurrentByte = 0 /\ wBitPos = 0 /\ wRet = <<>>
    /\ hBits = <<>> /\ hFlushes = 0 /\ hPrevRet = <<>>
    /\ rByteIndex = 0 /\ rBitPos = 0 /\ rRes = <<>>
    /\ berr = NoError /\ hCalls = 0 /\ hFails = 0 /\ hOps = <<>> /\ rOut = <<>>
    /\ \/ /\ bjob = "symbol"
          /\ bpc = "calls"
          /\ \E k \in SymbolArgs : bsyms = <<k>>
          /\ pbits = <<>> /\ rData = <<>>
       \/ /\ bjob = "sequence"
          /\ bpc = "calls"
          /\ bsyms \in SeqsUpTo(-1 .. 4, MaxBinSyms) \cup SkewedSeqs
          /\ pbits = <<>> /\ rData = <<>>
       \/ /\ bjob = "pack"
          /\ bpc = "pack_loop"
          /\ pbits \in SeqsUpTo({0, 1}, MaxPackBits)
          /\ bsyms = <<>> /\ rData = <<>>
       \/ /\ bjob = "writer"
          /\ bpc = "writing"
          /\ bsyms = <<>> /\ pbits = <<>> /\ rData = <<>>
       \/ /\ bjob = "reader"
          /\ bpc = "reading"
          /\ rData \in SeqsUpTo(ReadBytes, MaxReadBytes)
          /\ bsyms = <<>> /\ pbits = <<>>
    /\ RansIdle
    /\ ArithIdle

BitsNext ==
    \/ BinarizeSymbolCall
    \/ BinarizeSequenceCall
    \/ PackWriteBit
    \/ PackFlush
    \/ WriteBit
    \/ WriteBits
    \/ Flush
    \/ ReadBit
    \/ OpenReader
    \/ ReadBack

SpecBits == BitsInit /\ [][BitsNext]_vars

-----------------------------------------------------------------------------
(* Properties of the binarizer and of bit I/O, stated for SpecBits.        *)

\* bit i (0-based, least significant bit of byte 0 first) of a byte buffer
PackedBit(bytes, i) == (bytes[i \div 8 + 1] \div (2 ^ (i % 8))) % 2

\* what a binarizer call that refuses its argument leaves behind
RangeError == [state |-> "thrown", bits |-> <<>>, err |-> "symbol out of range (0..3)"]

\* the unary codeword of k: k ones, then a zero
UnaryCode(k) == [n \in 1 .. k + 1 |-> IF n <= k THEN 1 ELSE 0]

\* C12: bit-packing order. packBitsToBytes of n bits returns exactly
\* ceil(n / 8) bytes, input bit i sits at bit position i mod 8 of byte
\* floor(i / 8), and the unused high bits of the last byte are 0; [1,0,1]
\* packs to the single byte 5 and the empty sequence to the empty buffer.
C12_BitPackingOrder ==
    (bjob = "pack" /\ bpc = "pack_done")
        => /\ Len(wRet) = (Len(pbits) + 7) \div 8
           /\ \A n \in 1 .. Len(wRet) : wRet[n] \in 0 .. 255
           /\ \A i \in 0 .. 8 * Len(wRet) - 1 :
                PackedBit(wRet, i) = IF i < Len(pbits) THEN pbits[i + 1] ELSE 0
           /\ pbits = <<1, 0, 1>> => wRet = <<5>>
           /\ pbits = <<>> => wRet = <<>>

\* C12 witness: nine bits have been packed, the ninth a 1, the first two
\* different from each other.
C12_Witness ==
    /\ bjob = "pack"
    /\ bpc = "pack_done"
    /\ Len(pbits) = 9
    /\ pbits[1] = 1
    /\ pbits[2] = 0
    /\ pbits[9] = 1

\* C13: binarizer range error. binarizeSymbol refuses, with the range error,
\* every symbol outside 0..3 under either codebook, and binarizeSequence on a
\* sequence that holds such a symbol ends with that error and returns no
\* bits, not even those of the symbols before it.
C13_BinarizerRangeError ==
    \A t \in Codebooks :
        /\ (bjob = "symbol" /\ bres[t].state # "none"
                /\ (bsyms[1] < 0 \/ bsyms[1] > 3))
              => bres[t] = RangeError
        /\ (bjob = "sequence" /\ bres[t].state # "none"
                /\ \E n \in 1 .. Len(bsyms) : bsyms[n] < 0 \/ bsyms[n] > 3)
              => bres[t] = RangeError

\* C13 witness: binarizeSequence has been called under both codebooks on a
\* sequence whose first two symbols are valid and whose third is 4.
C13_Witness ==
    /\ bjob = "sequence"
    /\ bsyms = <<0, 1, 4>>
    /\ bres["Good"].state = "thrown"
    /\ bres["Bad"].state = "thrown"

\* C14: monotonic cost ordering. For every sequence over 0..3 in which more
\* than half of the symbols are 0 (the 0.7/0.1/0.1/0.1 mix among them),
\* binarizeSequence returns strictly fewer bits under the efficient codebook
\* than under the inefficient one.
C14_MonotonicCost ==
    (bjob = "sequence" /\ bres["Good"].state = "returned"
        /\ bres["Bad"].state = "returned"
        /\ 2 * Occurrences(bsyms, 0) > Len(bsyms))
        => Len(bres["Good"].bits) < Len(bres["Bad"].bits)

\* C14 witness: both codebooks have been applied to a sequence of ten
\* symbols, seven of them 0 and one each of 1, 2 and 3.
C14_Witness ==
    /\ bjob = "sequence"
    /\ Len(bsyms) = 10
    /\ Occurrences(bsyms, 0) = 7
    /\ Occurrences(bsyms, 1) = 1
    /\ Occurrences(bsyms, 2) = 1
    /\ bres["Good"].state = "returned"
    /\ bres["Bad"].state = "returned"
    /\ Len(bres["Good"].bits) = 16

\* C15: BitReader out of data. Over a buffer of L bytes readBit succeeds for
\* exactly the first 8 L calls, call k returning bit k mod 8 of byte
\* floor(k / 8); every later call fails with the out-of-data error and
\* leaves the byte/bit cursor where it was.
C15_ReaderOutOfData ==
    bjob = "reader"
        => /\ hCalls <= 8 * Len(rData)
           /\ hFails >= 1 => hCalls = 8 * Len(rData)
           /\ 8 * rByteIndex + rBitPos = hCalls
           /\ rBitPos \in 0 .. 7
           /\ rRes # <<>>
                => (hCalls >= 1 /\ berr = NoError
                    /\ rRes = <<PackedBit(rData, hCalls - 1)>>)
           /\ (hCalls + hFails >= 1 /\ rRes = <<>>)
                => (hFails >= 1 /\ berr = "BitReader: out of data")

\* C15 witness: a two-byte buffer with different bytes has been read to its
\* end, and two more calls have failed.
C15_Witness ==
    /\ bjob = "reader"
    /\ rData = <<172, 1>>
    /\ hCalls = 16
    /\ hFails = 2

\* C16: flush idempotence. After any writeBit/writeBits calls, flush()
\* commits at most one partial byte, zero padded, leaves no pending bit and
\* returns the whole buffer; a second flush() right after it returns the
\* same buffer.
C16_FlushIdempotence ==
    bjob = "writer"
        => /\ hFlushes >= 1
                => /\ wBitPos = 0
                   /\ wCurrentByte = 0
                   /\ wRet = wBuffer
                   /\ Len(wRet) = (Len(hBits) + 7) \div 8
                   /\ \A i \in Len(hBits) .. 8 * Len(wRet) - 1 : PackedBit(wRet, i) = 0
           /\ hFlushes >= 2 => wRet = hPrevRet

\* C16 witness: flush() has been called twice after a writeBits of 32 bits
\* that started in the middle of a byte.
C16_Witness ==
    /\ bjob = "writer"
    /\ hFlushes = 2
    /\ Len(hBits) = 35
    /\ wRet # <<>>

\* C17: codebook determinism. Under the efficient codebook symbol k is k ones
\* followed by a zero: 0 -> [0], 1 -> [1,0], 2 -> [1,1,0], 3 -> [1,1,1,0];
\* the inefficient codebook gives symbol k the efficient codeword of 3 - k.
C17_CodebookDeterminism ==
    (bjob = "symbol" /\ bsyms[1] \in 0 .. 3)
        => /\ bres["Good"].state # "none"
                => /\ bres["Good"].state = "returned"
                   /\ bres["Good"].bits = UnaryCode(bsyms[1])
           /\ bres["Bad"].state # "none"
                => /\ bres["Bad"].state = "returned"
                   /\ bres["Bad"].bits = binarizeSymbol(3 - bsyms[1], "Good").bits

\* C17 witness: binarizeSymbol(1, .) has been called under both codebooks and
\* returned two codewords of different lengths.
C17_Witness ==
    /\ bjob = "symbol"
    /\ bsyms = <<1>>
    /\ bres["Good"].bits = <<1, 0>>
    /\ bres["Bad"].bits = <<1, 1, 0>>

\* v mod 2^n for a 32-bit value v and n in 0 .. 32
ModPow2(v, n) ==
    IF n >= 32 THEN v
    ELSE IF n >= 16 THEN <<Hi(v) % (2 ^ (n - 16)), Lo(v)>>
    ELSE <<0, Lo(v) % (2 ^ n)>>

\* C23: BitWriter/BitReader round trip. After any writeBits(v_i, n_i) calls
\* with 0 <= n_i <= 32, mixed with writeBit calls, and one flush(), a
\* BitReader over the returned buffer gives v_i mod 2^(n_i) from the
\* readBits(n_i) calls (and each written bit from readBit), in the order
\* written, and never runs out of data.
C23_BitStreamRoundTrip ==
    (bjob = "writer" /\ bpc \in {"reading_back", "read_fail"})
        => /\ bpc = "reading_back"
           /\ berr = NoError
           /\ \A k \in 1 .. Len(rOut) : rOut[k] = ModPow2(hOps[k].value, hOps[k].n)

\* C23 witness: a 3-bit field cut from a wider value, a single bit and a
\* 32-bit value that straddles five bytes have been written, flushed once and
\* all read back.
C23_Witness ==
    /\ bjob = "writer"
    /\ bpc = "reading_back"
    /\ hFlushes = 1
    /\ Len(hOps) = 3
    /\ Len(rOut) = 3
    /\ hOps[1] = [single |-> FALSE, value |-> <<65535, 65535>>, n |-> 3]
    /\ hOps[2].single
    /\ hOps[3] = [single |-> FALSE, value |-> <<43981, 4660>>, n |-> 32]

====
